---- MODULE Spec2Model ----
(***************************************************************************)
(* A model of pocs/utils/images/calculations.py: the plate-solving         *)
(* wrappers solve_field / get_solve_field, the offset calculations          *)
(* solve_offset / measure_offset, the pointing error of                    *)
(* get_pointing_error and the time series of get_pec_data.                 *)
(* One call runs at a time; `stack` holds the active frames and `pc` the   *)
(* position inside the innermost one.                                      *)
(***************************************************************************)
EXTENDS Integers, Sequences, FiniteSets, TLC

VARIABLES
    env,          \* process environment: PANTEMP ("" when unset)
    fs,           \* what the files read so far hold: <<kind, file>> -> content
    stack,        \* active frames, innermost first: [fn, ret]
    pc,           \* position in the innermost frame; "idle", "done", "raised"
    exc,          \* the exception that ended the call, "none" otherwise
    result,       \* the value returned by the outermost call
    topfn,        \* the function the caller called, "none" before the call
    callkw,       \* keyword arguments of the current (get_)solve_field call
    fname,        \* file name argument of the current (get_)solve_field call
    exists_result,\* outcome of os.path.exists(solve_field_script) in this call
    options,      \* solve_field: the option list
    cmd,          \* solve_field: the command list handed to Popen
    proc,         \* the Popen object and the process behind it
    spawned,      \* number of processes spawned so far
    wait_timeout, \* get_solve_field: timeout of the first communicate()
    clock,        \* seconds waited so far by a communicate(timeout) in progress
    output,       \* get_solve_field: first element of communicate()'s result
    errs,         \* get_solve_field: second element of communicate()'s result
    warnings,     \* warnings emitted so far
    out_dict,     \* get_solve_field: the dictionary under construction
    hdr_fname,    \* get_solve_field: local fname after the cr2 -> new rename
    reads,        \* log of read_exif / fits.getheader calls of this call
    first_dict,   \* solve_offset: description of the first image
    second_dict,  \* solve_offset: description of the second image
    out,          \* solve_offset: the output dictionary
    d0,           \* measure_offset: first array (as received, then as cropped)
    d1,           \* measure_offset: second array
    moargs,       \* measure_offset: info, crop and rate as passed
    registered,   \* measure_offset: the arrays handed to register_translation
    offset_info,  \* measure_offset: the output dictionary
    pointing,     \* get_pointing_error: the file, its WCS information and header
    pecargs,      \* get_pec_data: its arguments, and what image_dir holds
    ref_image,    \* get_pec_data: the reference image
    t0,           \* get_pec_data: the reference time
    ref_wcs,      \* get_pec_data: WCS information of the reference image
    image_files,  \* get_pec_data: the sorted image sequence
    idx,          \* get_pec_data: position of the loop in image_files
    img_info,     \* get_pec_data: one header dictionary per image processed
    img_log,      \* what was done for each image: file, solved or read, files read
    table         \* get_pec_data: the columns of the returned table

envVars == <<env, fs>>
ctlVars == <<stack, pc, exc, result, topfn>>
sfVars == <<callkw, fname, exists_result, options, cmd>>
procVars == <<proc, spawned>>
gsfVars == <<wait_timeout, clock, output, errs, warnings, out_dict, hdr_fname, reads>>
soVars == <<first_dict, second_dict, out>>
moVars == <<d0, d1, moargs, registered, offset_info>>
gpeVars == <<pointing>>
pecVars == <<pecargs, ref_image, t0, ref_wcs, image_files, idx, img_info, img_log, table>>
calcVars == <<soVars, moVars, gpeVars, pecVars>>
vars == <<env, fs, stack, pc, exc, result, topfn, callkw, fname, exists_result, options, cmd,
          proc, spawned, wait_timeout, clock, output, errs, warnings, out_dict,
          hdr_fname, reads, first_dict, second_dict, out, d0, d1, moargs,
          registered, offset_info, pointing, pecargs, ref_image, t0, ref_wcs, image_files,
          idx, img_info, img_log, table>>

----------------------------------------------------------------------------
(* Bounds of the model *)

\* caller-supplied timeouts range over 1..MaxTimeout
MaxTimeout == 2

(* Program constants *)

\* solve_field(fname, timeout=15, ...)
DefaultCpuLimit == 15
\* the default the docstring of solve_field announces
DocumentedCpuLimit == 60
\* proc.communicate(timeout=kwargs.get('timeout', 30))
DefaultWait == 30

----------------------------------------------------------------------------
(* Python values *)

\* None, and the empty dict
None == <<"None">>
EmptyDict == [k \in {} |-> TRUE]

\* dict.get(key, default)
Get(d, k, default) == IF k \in DOMAIN d THEN d[k] ELSE default

\* dict.update(other): entries of other override entries of d
Update(d, other) ==
    [k \in (DOMAIN d) \cup (DOMAIN other) |->
        IF k \in DOMAIN other THEN other[k] ELSE d[k]]

\* str(n) for a natural number
Digit(d) ==
    CASE d = 0 -> "0" [] d = 1 -> "1" [] d = 2 -> "2" [] d = 3 -> "3"
      [] d = 4 -> "4" [] d = 5 -> "5" [] d = 6 -> "6" [] d = 7 -> "7"
      [] d = 8 -> "8" [] d = 9 -> "9"

RECURSIVE Str(_)
Str(n) == IF n < 10 THEN Digit(n) ELSE Str(n \div 10) \o Digit(n % 10)

\* ' '.join(list)
RECURSIVE Join(_)
Join(l) ==
    IF Len(l) = 0 THEN ""
    ELSE IF Len(l) = 1 THEN l[1]
    ELSE l[1] \o " " \o Join(Tail(l))

\* Floating-point quantities are kept exact, as fractions <<numerator, denominator>>
\* in lowest terms with a positive denominator.
Abs(x) == IF x < 0 THEN -x ELSE x

RECURSIVE GCD(_, _)
GCD(a, b) == IF b = 0 THEN a ELSE GCD(b, a % b)

Rat(n, d) ==
    LET g == GCD(Abs(n), Abs(d))
        sgn == IF d < 0 THEN -1 ELSE 1
    IN  <<(sgn * n) \div g, (sgn * d) \div g>>

RInt(n) == <<n, 1>>
RAdd(a, b) == Rat(a[1] * b[2] + b[1] * a[2], a[2] * b[2])
RSub(a, b) == Rat(a[1] * b[2] - b[1] * a[2], a[2] * b[2])
RMul(a, b) == Rat(a[1] * b[1], a[2] * b[2])
RDiv(a, b) == Rat(a[1] * b[2], a[2] * b[1])

\* numpy's round(): to the nearest integer, ties to the even one
RoundHalfEven(r) ==
    LET fl == r[1] \div r[2]
        twice == 2 * (r[1] - fl * r[2])
    IN  IF twice < r[2] THEN fl
        ELSE IF twice > r[2] THEN fl + 1
        ELSE IF fl % 2 = 0 THEN fl ELSE fl + 1

\* round(x, 4)
Round4(r) == Rat(RoundHalfEven(RMul(r, RInt(10000))), 10000)

\* File names are sequences of characters.
Cr2Ext == <<"c", "r", "2">>
NewExt == <<"n", "e", "w">>

\* str.endswith(suffix)
EndsWith(s, suffix) ==
    /\ Len(s) >= Len(suffix)
    /\ SubSeq(s, Len(s) - Len(suffix) + 1, Len(s)) = suffix

\* str.replace(old, new): every non-overlapping occurrence, left to right
RECURSIVE Replace(_, _, _)
Replace(s, old, new) ==
    IF Len(s) < Len(old) THEN s
    ELSE IF SubSeq(s, 1, Len(old)) = old
         THEN new \o Replace(SubSeq(s, Len(old) + 1, Len(s)), old, new)
         ELSE <<Head(s)>> \o Replace(Tail(s), old, new)

----------------------------------------------------------------------------
(* Inputs *)

FileNames ==
    { <<"g", ".", "c", "r", "2">>,
      <<"c", "r", "2", "/", "g", ".", "c", "r", "2">>,
      <<"g", ".", "f", "i", "t", "s">>,
      <<"g", ".", "n", "e", "w">> }

OptEntry(k, vals) == {EmptyDict} \cup { k :> v : v \in vals }

SolveOptsChoices == { <<>>, <<"--no-plots", "--cpulimit", "5">> }

CallKwargs ==
    { t @@ so @@ cl @@ sk @@ ra @@ de @@ rd :
        t \in OptEntry("timeout", 1..MaxTimeout),
        so \in OptEntry("solve_opts", SolveOptsChoices),
        cl \in OptEntry("clobber", BOOLEAN),
        sk \in OptEntry("skip_solved", BOOLEAN),
        ra \in OptEntry("ra", {3}),
        de \in OptEntry("dec", {7}),
        rd \in OptEntry("radius", {10}) }

\* the keyword arguments tried on get_solve_field: the ones it reads itself
\* ('timeout') and a sample of those it only passes on
GetSolveFieldKwargs ==
    { t @@ cl @@ ra :
        t \in OptEntry("timeout", 1..MaxTimeout),
        cl \in OptEntry("clobber", {FALSE}),
        ra \in OptEntry("ra", {3}) }

\* the file names tried on a direct solve_field call
SolveFieldFiles ==
    { <<"g", ".", "c", "r", "2">>, <<"g", ".", "f", "i", "t", "s">> }

\* solve_offset: the keys the function reads, and the values tried for them
FirstDictKeys == {"center_ra", "center_dec", "rotation", "pixel_scale", "DATE-OBS"}
SecondDictKeys == {"center_ra", "center_dec", "DATE-OBS"}

FirstDicts ==
    { [k \in ks |-> CASE k = "center_ra" -> 10 [] k = "center_dec" -> 20
                       [] k = "rotation" -> 5 [] k = "pixel_scale" -> 10
                       [] k = "DATE-OBS" -> 0] : ks \in SUBSET FirstDictKeys }

SecondDicts ==
    { [k \in ks |-> CASE k = "center_ra" -> ra [] k = "center_dec" -> 19
                       [] k = "DATE-OBS" -> t] :
        ks \in SUBSET SecondDictKeys, ra \in {10, 12}, t \in {60, 90} }

\* measure_offset: arrays are known by their name, their shape and whether
\* they went through crop_data
NoArray == [name |-> "none", shape |-> <<>>, cropped |-> FALSE]
AxisLengths == {100, 500, 501, 640}
Arrays(n) == { [name |-> n, shape |-> <<r, c>>, cropped |-> FALSE] :
                 r \in AxisLengths, c \in AxisLengths }

\* info: empty, or a WCS matrix (deg/pixel) and the time between the images
Infos ==
    { EmptyDict,
      [cd11 |-> 2, cd12 |-> 0, cd21 |-> 0, cd22 |-> -3],
      [cd11 |-> 0, cd12 |-> 1, cd21 |-> 1, cd22 |-> 0, delta_time |-> 60] }

\* rate: None, or arcsec per second as a fraction
Rates == { None, <<15, 1>>, <<27, 2>> }

\* the shifts register_translation may report, in 1/pixel_factor pixels
Shifts == { <<0, 0>>, <<150, -25>>, <<-3, 7>> }

\* get_pec_data: at most MaxImages images in the directory besides the CR2
\* of the guide image
MaxImages == 1
\* the host's local time is this many seconds ahead of UTC in winter, and
\* twice as many in summer if its zone has summer time
LocalUtcOffset == 3600
\* the local time at which summer time begins, in a zone that has it
DstStart == 130

ImageLetters == <<"a", "b", "c", "d">>
ImageNames == { <<ImageLetters[i], ".", "c", "r", "2">> : i \in 1..MaxImages }
GuideNew == <<"g", ".", "n", "e", "w">>
GuideCr2 == <<"g", ".", "c", "r", "2">>

\* the **kwargs passed on to get_solve_field for each image
PecKwargs == { "timeout" :> 1 }

\* what target_dir may hold: a solved guide image or none, and any of the
\* CR2 files, that of the guide image among them
ImageDirs ==
    [new : SUBSET {GuideNew}, cr2 : SUBSET (ImageNames \cup {GuideCr2})]

\* img_prefix: the default '', or a prefix only some of the images have
ImgPrefixes == { <<>>, <<"a">> }

\* DATE-OBS of the reference header, and the start of the observation parsed
\* from image_dir, in seconds
RefDateObs == 40
ObsDateStart == 0

\* get_wcsinfo(file) of .metadata: the centre of the solved field, in degrees
\* (the first image of the sequence at RA 3 or 4, every other field at RA 3)
get_wcsinfo(f) ==
    { [ra_center |-> ra, dec_center |-> 7] : ra \in (IF f[1] = "a" THEN {3, 4} ELSE {3}) }

----------------------------------------------------------------------------
(* Control *)

NoProc == [state |-> "none", stderr |-> "none", kill_sent |-> FALSE,
           wrote_err |-> FALSE, pipe_open |-> FALSE, eof_read |-> FALSE,
           collected |-> FALSE]

Init ==
    /\ env = [PANTEMP |-> ""]
    /\ fs = EmptyDict
    /\ stack = <<>>
    /\ pc = "idle"
    /\ exc = "none"
    /\ result = None
    /\ topfn = "none"
    /\ callkw = EmptyDict
    /\ fname = <<>>
    /\ exists_result = "unchecked"
    /\ options = <<>>
    /\ cmd = <<>>
    /\ proc = NoProc
    /\ spawned = 0
    /\ wait_timeout = 0
    /\ clock = 0
    /\ output = None
    /\ errs = None
    /\ warnings = <<>>
    /\ out_dict = EmptyDict
    /\ hdr_fname = <<>>
    /\ reads = <<>>
    /\ first_dict = EmptyDict
    /\ second_dict = EmptyDict
    /\ out = EmptyDict
    /\ d0 = NoArray
    /\ d1 = NoArray
    /\ moargs = EmptyDict
    /\ registered = <<>>
    /\ offset_info = EmptyDict
    /\ pointing = [fits_fname |-> <<>>, wcs_info |-> EmptyDict, header |-> EmptyDict]
    /\ pecargs = EmptyDict
    /\ ref_image = <<>>
    /\ t0 = 0
    /\ ref_wcs = EmptyDict
    /\ image_files = <<>>
    /\ idx = 0
    /\ img_info = <<>>
    /\ img_log = <<>>
    /\ table = EmptyDict

\* An exception no frame handles: it unwinds the whole stack.
Raise(e) ==
    /\ pc' = "raised"
    /\ exc' = e
    /\ stack' = <<>>
    /\ UNCHANGED <<result, topfn>>

\* return: pop the innermost frame and continue in the caller.
Return(value) ==
    /\ pc' = Head(stack).ret
    /\ stack' = Tail(stack)
    /\ result' = IF Len(stack) = 1 THEN value ELSE result
    /\ UNCHANGED <<exc, topfn>>

Goto(label) ==
    /\ pc' = label
    /\ UNCHANGED <<stack, exc, result, topfn>>

----------------------------------------------------------------------------
(* solve_field *)

solve_field_script == "$POCS/scripts/solve_field.sh"

\* binding of the keyword arguments to solve_field's signature
Timeout(kw) == Get(kw, "timeout", DefaultCpuLimit)
SolveOpts(kw) == Get(kw, "solve_opts", <<>>)

\* the option list, lines 53-81
DefaultOptions(kw, pantemp) ==
    <<"--guess-scale", "--cpulimit", Str(Timeout(kw)), "--no-verify", "--no-plots",
      "--crpix-center", "--downsample", "4">>
    \o (IF Get(kw, "clobber", TRUE) THEN <<"--overwrite">> ELSE <<>>)
    \o (IF Get(kw, "skip_solved", TRUE) THEN <<"--skip-solved">> ELSE <<>>)
    \o (IF "ra" \in DOMAIN kw THEN <<"--ra", Str(kw["ra"])>> ELSE <<>>)
    \o (IF "dec" \in DOMAIN kw THEN <<"--dec", Str(kw["dec"])>> ELSE <<>>)
    \o (IF "radius" \in DOMAIN kw THEN <<"--radius", Str(kw["radius"])>> ELSE <<>>)
    \o (IF pantemp # "" THEN <<"--temp-dir", pantemp>> ELSE <<>>)

\* faulty variant: the defaults are appended to the list that was given
DefaultsAfterGiven(kw, pantemp) == SolveOpts(kw) \o DefaultOptions(kw, pantemp)

BuildOptions(kw, pantemp) ==
    IF SolveOpts(kw) # <<>> THEN SolveOpts(kw) ELSE DefaultOptions(kw, pantemp)

\* line 54 binds options to the caller's list object itself, so whatever the
\* function leaves in options is what the caller finds in solve_opts; the list
\* of line 56 is a new object
CallerKwargs(kw, opts) ==
    IF SolveOpts(kw) # <<>> THEN [kw EXCEPT !["solve_opts"] = opts] ELSE kw

\* the environment a plate-solving call may find: PANTEMP unset or set
Environments == [PANTEMP : {"", "/tmp/pan"}]

\* a top-level call solve_field(fname, **kw)
CallSolveField ==
    /\ pc = "idle"
    /\ env' \in Environments
    /\ \E f \in SolveFieldFiles, kw \in CallKwargs :
        /\ fname' = f
        /\ callkw' = kw
    /\ stack' = <<[fn |-> "solve_field", ret |-> "done"]>>
    /\ topfn' = "solve_field"
    /\ pc' = "sf_enter"
    /\ UNCHANGED <<exc, result, exists_result, options, cmd>>
    /\ UNCHANGED <<calcVars, fs, procVars, gsfVars>>

\* faulty variant: a missing script is noticed but the call carries on
MissingScriptIgnored ==
    /\ exists_result' = "no"
    /\ Goto("sf_options")

\* lines 47-50: the existence check of the script
MissingScript ==
    /\ exists_result' = "no"
    /\ Raise("InvalidSystemCommand")

SolveField_CheckScript ==
    /\ pc = "sf_enter"
    /\ \/ /\ exists_result' = "yes"
          /\ Goto("sf_options")
       \/ MissingScript
    /\ proc' = NoProc
    /\ UNCHANGED <<callkw, fname, options, cmd, spawned>>
    /\ UNCHANGED <<calcVars, envVars, gsfVars>>

\* lines 52-83: the options and the command
SolveField_Options ==
    /\ pc = "sf_options"
    /\ options' = BuildOptions(callkw, env.PANTEMP)
    /\ callkw' = CallerKwargs(callkw, options')
    /\ cmd' = <<solve_field_script, Join(options'), fname>>
    /\ Goto("sf_popen")
    /\ UNCHANGED <<fname, exists_result>>
    /\ UNCHANGED <<calcVars, envVars, procVars, gsfVars>>

\* the arguments of subprocess.Popen, line 88
PopenStderr == "STDOUT"

\* the file the solver writes for image f: the name of f with the extension
\* new (astrometry.net's default)
SolverOutput(f) ==
    LET dot == CHOOSE i \in DOMAIN f : f[i] = "." /\ \A j \in DOMAIN f : j > i => f[j] # "."
    IN  SubSeq(f, 1, dot) \o NewExt

\* line 139: the name the code takes for the solved file of a CR2,
\* fname.replace('cr2', 'new'), which also rewrites a 'cr2' in the directory
SolvedFitsFile(f) == Replace(f, Cr2Ext, NewExt)

\* the files a solver started on f may write: the one the solver names and
\* the one the code reads as its output
SolverWrites(f) == {SolverOutput(f), SolvedFitsFile(f)} \ {f}

\* what is known of the files once a solver was started on f. The solver, or
\* a process it leaves behind, may write its output at any later time (the
\* script killed at the timeout leaves its children running): what such a
\* file held at one read says nothing of what it holds at the next.
AfterSolving(f) ==
    [w \in { <<"written", g>> : g \in SolverWrites(f) } |-> TRUE]
    @@ [k \in (DOMAIN fs) \ { <<"header", g>> : g \in SolverWrites(f) } |-> fs[k]]

\* lines 87-94: spawn the process, or translate the failure
SolveField_Popen ==
    /\ pc = "sf_popen"
    /\ \/ /\ proc' = [state |-> "running", stderr |-> PopenStderr, kill_sent |-> FALSE,
                      wrote_err |-> FALSE, pipe_open |-> TRUE, eof_read |-> FALSE,
                      collected |-> FALSE]
          /\ spawned' = spawned + 1
          /\ fs' = AfterSolving(fname)
          /\ Goto("sf_return")
       \/ /\ \E e \in {"InvalidCommand", "PanError"} : Raise(e)
          /\ UNCHANGED <<procVars, fs>>
    /\ UNCHANGED <<calcVars, env, sfVars, gsfVars>>

\* line 96
SolveField_Return ==
    /\ pc = "sf_return"
    /\ Return(<<"proc">>)
    /\ UNCHANGED <<calcVars, envVars, sfVars, procVars, gsfVars>>

----------------------------------------------------------------------------
(* The spawned process *)

\* The script's end of the output pipe (stdout=PIPE) is inherited by the
\* processes the script starts: the pipe reaches end of file when the last of
\* them has closed it, which may be later than the end of the script itself.

\* the script finishes on its own, with or without error output
ProcExit ==
    /\ proc.state = "running"
    /\ \E w \in BOOLEAN, held \in {proc.pipe_open, FALSE} :
        proc' = [proc EXCEPT !.state = "exited", !.wrote_err = w, !.pipe_open = held]
    /\ UNCHANGED <<calcVars, envVars, ctlVars, sfVars, spawned, gsfVars>>

\* SIGKILL takes effect
ProcDie ==
    /\ proc.state = "running"
    /\ proc.kill_sent
    /\ \E w \in BOOLEAN, held \in {proc.pipe_open, FALSE} :
        proc' = [proc EXCEPT !.state = "killed", !.wrote_err = w, !.pipe_open = held]
    /\ UNCHANGED <<calcVars, envVars, ctlVars, sfVars, spawned, gsfVars>>

\* the pipe is closed by its last holder: the script itself while it still
\* runs, or the last process it left behind
PipeClosed ==
    /\ proc.state \in {"running", "exited", "killed"}
    /\ proc.pipe_open
    /\ proc' = [proc EXCEPT !.pipe_open = FALSE]
    /\ UNCHANGED <<calcVars, envVars, ctlVars, sfVars, spawned, gsfVars>>

\* communicate() is still waiting: for the end of the process or of the pipe
Waiting(p) == p.state = "running" \/ p.pipe_open

\* what communicate() hands back for a terminated process
CommunicateOutput(p) ==
    <<"stdout">> \o (IF p.stderr = "STDOUT" /\ p.wrote_err THEN <<"stderr">> ELSE <<>>)

CommunicateErrs(p) ==
    IF p.stderr = "PIPE"
    THEN (IF p.wrote_err THEN <<"stderr">> ELSE <<>>)
    ELSE None

----------------------------------------------------------------------------
(* get_solve_field *)

\* a top-level call get_solve_field(fname, **kw)
CallGetSolveField ==
    /\ pc = "idle"
    /\ env' \in Environments
    /\ \E f \in FileNames, kw \in GetSolveFieldKwargs :
        /\ fname' = f
        /\ callkw' = kw
    /\ stack' = <<[fn |-> "get_solve_field", ret |-> "done"]>>
    /\ topfn' = "get_solve_field"
    /\ pc' = "gsf_enter"
    /\ UNCHANGED <<exc, result, exists_result, options, cmd>>
    /\ UNCHANGED <<calcVars, fs, procVars, gsfVars>>

\* line 124: proc = solve_field(fname, **kwargs)
GetSolveField_CallSolveField ==
    /\ pc = "gsf_enter"
    /\ stack' = <<[fn |-> "solve_field", ret |-> "gsf_wait"]>> \o stack
    /\ pc' = "sf_enter"
    /\ wait_timeout' = 0
    /\ clock' = 0
    /\ output' = None
    /\ errs' = None
    /\ out_dict' = EmptyDict
    /\ hdr_fname' = fname
    /\ reads' = <<>>
    /\ UNCHANGED <<exc, result, topfn, warnings>>
    /\ UNCHANGED <<calcVars, envVars, sfVars, procVars>>

\* line 126: communicate(timeout=kwargs.get('timeout', 30)) starts
GetSolveField_Wait ==
    /\ pc = "gsf_wait"
    /\ wait_timeout' = Get(callkw, "timeout", DefaultWait)
    /\ clock' = 0
    /\ Goto("gsf_communicate")
    /\ UNCHANGED <<output, errs, warnings, out_dict, hdr_fname, reads>>
    /\ UNCHANGED <<calcVars, envVars, sfVars, procVars>>

\* a second passes while communicate() waits
Tick ==
    /\ pc = "gsf_communicate"
    /\ Waiting(proc)
    /\ clock < wait_timeout
    /\ clock' = clock + 1
    /\ UNCHANGED <<wait_timeout, output, errs, warnings, out_dict, hdr_fname, reads>>
    /\ UNCHANGED <<calcVars, envVars, ctlVars, sfVars, procVars>>

\* communicate() returns: the pipe is at end of file, the process has
\* terminated and is collected
Collect(next) ==
    /\ ~Waiting(proc)
    /\ output' = CommunicateOutput(proc)
    /\ errs' = CommunicateErrs(proc)
    /\ proc' = [proc EXCEPT !.collected = TRUE]
    /\ clock' = 0
    /\ Goto(next)
    /\ UNCHANGED <<wait_timeout, warnings, out_dict, hdr_fname, reads>>
    /\ UNCHANGED <<calcVars, envVars, sfVars, spawned>>

\* line 90, universal_newlines=True: communicate() decodes what it collected
\* and raises when the output is not text in the locale's encoding
DecodeFails ==
    /\ ~Waiting(proc)
    /\ proc' = [proc EXCEPT !.collected = TRUE]
    /\ clock' = 0
    /\ Raise("UnicodeDecodeError")
    /\ UNCHANGED <<wait_timeout, output, errs, warnings, out_dict, hdr_fname, reads>>
    /\ UNCHANGED <<calcVars, envVars, sfVars, spawned>>

\* a communicate() that follows one which already read the pipe to its end:
\* older interpreters raise ValueError for the closed file, newer ones go on
ClosedFileFails ==
    /\ proc.eof_read
    /\ Raise("ValueError")
    /\ UNCHANGED <<calcVars, envVars, sfVars, procVars, gsfVars>>

GetSolveField_Communicate ==
    /\ pc = "gsf_communicate"
    /\ \/ Collect("gsf_dict")
       \/ DecodeFails

\* line 127: the wait timed out, subprocess.TimeoutExpired is caught
OnTimeout == Goto("gsf_kill")

GetSolveField_Timeout ==
    /\ pc = "gsf_communicate"
    /\ Waiting(proc)
    /\ clock = wait_timeout
    /\ OnTimeout
    /\ clock' = 0
    /\ proc' = [proc EXCEPT !.eof_read = ~proc.pipe_open]
    /\ UNCHANGED <<wait_timeout, output, errs, warnings, out_dict, hdr_fname, reads>>
    /\ UNCHANGED <<calcVars, envVars, sfVars, spawned>>

\* line 128: proc.kill()
GetSolveField_Kill ==
    /\ pc = "gsf_kill"
    /\ proc' = [proc EXCEPT !.kill_sent = (proc.state = "running")]
    /\ Goto("gsf_communicate2")
    /\ UNCHANGED <<calcVars, envVars, sfVars, spawned, gsfVars>>

\* line 129: communicate() without timeout
GetSolveField_Communicate2 ==
    /\ pc = "gsf_communicate2"
    /\ \/ Collect("gsf_dict")
       \/ DecodeFails
       \/ ClosedFileFails

\* A file no solver writes holds the same content every time it is read:
\* what a read may find is open until the file is read first, and fixed after.
\* Of a file a solver may write, nothing is kept from one read to the next.
Contents(kind, f, choices) ==
    IF <<kind, f>> \in DOMAIN fs THEN {fs[<<kind, f>>]} ELSE choices

RememberIn(known, kind, f, data) ==
    IF <<"written", f>> \in DOMAIN known THEN known ELSE (<<kind, f>> :> data) @@ known

Remember(kind, f, data) == RememberIn(fs, kind, f, data)

\* read_exif(fname) of .io: what the EXIF data of file f may be (the images
\* of a sequence, a.cr2, b.cr2, ..., all carry EXIF data)
read_exif(f) ==
    (IF Len(f) = 5 /\ f[1] # "g" THEN {} ELSE {EmptyDict})
    \cup { [k \in {"ISO", "Camera"} |-> <<"exif", f>>] }

\* fits.getheader(fname): what the header of file f may be; DATE-OBS is a
\* time in seconds (the guide image is taken RefDateObs or 100 seconds after
\* the start, the others 100 or 160), the other cards are tagged with the file
\* they come from
DateObs(f) == IF f[1] = "g" THEN <<RefDateObs, 100>> ELSE <<100, 160>>

getheader(f) ==
    { EmptyDict,
      ("DATE-OBS" :> DateObs(f)[1])
          @@ [k \in {"ISO", "HISTORY", "COMMENT"} |-> <<"fits", f>>],
      ("DATE-OBS" :> DateObs(f)[2]) @@ [k \in {"HISTORY", "COMMENT"} |-> <<"fits", f>>],
      [k \in {"HISTORY", "COMMENT"} |-> <<"fits", f>>],
      ("DATE-OBS" :> DateObs(f)[1]) @@ [k \in {"COMMENT"} |-> <<"fits", f>>] }

\* faulty variant: the header is read from the file given by the caller
HeaderFileAsGiven == fname

\* line 143: the file whose header is read
HeaderFile == hdr_fname

\* lines 131-140: the error check and the branch on the extension
GetSolveField_Dict ==
    /\ pc = "gsf_dict"
    /\ IF errs # None
       THEN /\ warnings' = Append(warnings, <<"Error in solving: ", errs>>)
            /\ Goto("gsf_return")
            /\ UNCHANGED <<out_dict, hdr_fname, reads, fs>>
       ELSE IF EndsWith(fname, Cr2Ext)
       THEN \E exif \in Contents("exif", fname, read_exif(fname)) :
            /\ fs' = Remember("exif", fname, exif)
            /\ hdr_fname' = SolvedFitsFile(fname)
            /\ out_dict' = Update(Update(out_dict, exif), "solved_fits_file" :> hdr_fname')
            /\ reads' = Append(reads, [op |-> "read_exif", file |-> fname, ok |-> TRUE,
                                       data |-> exif])
            /\ Goto("gsf_header")
            /\ UNCHANGED warnings
       ELSE /\ Goto("gsf_header")
            /\ UNCHANGED <<warnings, out_dict, hdr_fname, reads, fs>>
    /\ UNCHANGED <<wait_timeout, clock, output, errs>>
    /\ UNCHANGED <<calcVars, env, sfVars, procVars>>

\* lines 142-146: the header of the (renamed) file, OSError swallowed
GetSolveField_Header ==
    /\ pc = "gsf_header"
    /\ \/ \E header \in Contents("header", HeaderFile, getheader(HeaderFile)) :
            /\ fs' = Remember("header", HeaderFile, header)
            /\ out_dict' = Update(out_dict, header)
            /\ reads' = Append(reads, [op |-> "getheader", file |-> HeaderFile, ok |-> TRUE,
                                       data |-> header])
       \/ /\ reads' = Append(reads, [op |-> "getheader", file |-> HeaderFile, ok |-> FALSE,
                                     data |-> EmptyDict])
          /\ UNCHANGED <<out_dict, fs>>
    /\ Goto("gsf_return")
    /\ UNCHANGED <<wait_timeout, clock, output, errs, warnings, hdr_fname>>
    /\ UNCHANGED <<calcVars, env, sfVars, procVars>>

\* the locals of get_solve_field and of the solve_field call it made, other
\* than the dictionary it returns: the arguments, the process object, what
\* communicate() gave
DropFrame ==
    /\ callkw' = EmptyDict
    /\ fname' = <<>>
    /\ exists_result' = "unchecked"
    /\ options' = <<>>
    /\ cmd' = <<>>
    /\ proc' = NoProc
    /\ wait_timeout' = 0
    /\ clock' = 0
    /\ output' = None
    /\ errs' = None
    /\ hdr_fname' = <<>>
    /\ reads' = <<>>
    /\ UNCHANGED <<spawned, warnings>>

\* line 148: the dictionary goes to the caller; in a call made by
\* get_pec_data the locals go away with the frame (those of the outermost
\* call are kept, as what the call did)
GetSolveField_Return ==
    /\ pc = "gsf_return"
    /\ Return(<<"dict", out_dict>>)
    /\ IF Len(stack) > 1
       THEN DropFrame /\ UNCHANGED out_dict
       ELSE UNCHANGED <<sfVars, procVars, gsfVars>>
    /\ UNCHANGED <<calcVars, envVars>>

----------------------------------------------------------------------------
(* solve_offset *)

\* a top-level call solve_offset(first_dict, second_dict)
CallSolveOffset ==
    /\ pc = "idle"
    /\ first_dict' \in FirstDicts
    /\ second_dict' \in SecondDicts
    /\ stack' = <<[fn |-> "solve_offset", ret |-> "done"]>>
    /\ topfn' = "solve_offset"
    /\ pc' = "so_assert"
    /\ UNCHANGED <<exc, result, out>>
    /\ UNCHANGED <<moVars, gpeVars, pecVars, envVars, sfVars, procVars, gsfVars>>

\* faulty variant: the pixel_scale assertion is dropped
AssertedKeysWithoutPixelScale ==
    <<<<first_dict, "center_ra", "center_ra required for first image solving offset.">>,
      <<second_dict, "center_ra", "center_ra required for second image solving offset.">>>>

\* lines 166-168: the asserted keys, in order, with the warning of each
AssertedKeys ==
    <<<<first_dict, "center_ra", "center_ra required for first image solving offset.">>,
      <<second_dict, "center_ra", "center_ra required for second image solving offset.">>,
      <<first_dict, "pixel_scale", "pixel_scale required for solving offset.">>>>

\* the first assertion that fails, 0 when all hold
FirstFailing(asserts) ==
    LET failing == { i \in 1..Len(asserts) : asserts[i][2] \notin DOMAIN asserts[i][1] }
    IN  IF failing = {} THEN 0
        ELSE CHOOSE i \in failing : \A j \in failing : i <= j

\* lines 166-168: a failing assert evaluates its message, warn(...), and raises
SolveOffset_Assert ==
    /\ pc = "so_assert"
    /\ LET i == FirstFailing(AssertedKeys) IN
        IF i # 0
        THEN /\ warnings' = Append(warnings, <<AssertedKeys[i][3]>>)
             /\ Raise("AssertionError")
        ELSE /\ Goto("so_read")
             /\ UNCHANGED warnings
    /\ UNCHANGED <<wait_timeout, clock, output, errs, out_dict, hdr_fname, reads>>
    /\ UNCHANGED <<calcVars, envVars, sfVars, procVars>>

\* lines 173-184: the subscripts, in order
SubscriptedKeys ==
    <<<<first_dict, "center_ra">>, <<first_dict, "center_dec">>,
      <<second_dict, "center_ra">>, <<second_dict, "center_dec">>,
      <<first_dict, "rotation">>, <<first_dict, "pixel_scale">>,
      <<first_dict, "DATE-OBS">>, <<second_dict, "DATE-OBS">>>>

\* lines 186-245: the output dictionary (values in the units the code gives them)
SolveOffsetOut(fd, sd) ==
    LET pixel_scale == RInt(fd["pixel_scale"])
        rotation == RInt(fd["rotation"])
        delta_t == Rat(sd["DATE-OBS"] - fd["DATE-OBS"], 60)
        delta_ra_deg == RInt(sd["center_ra"] - fd["center_ra"])
        delta_dec_deg == RInt(sd["center_dec"] - fd["center_dec"])
        delta_ra == RDiv(RMul(delta_ra_deg, RInt(3600)), pixel_scale)
        delta_dec == RDiv(RMul(delta_dec_deg, RInt(3600)), pixel_scale)
        ra_rate == RDiv(delta_ra, delta_t)
        dec_rate == RDiv(delta_dec, delta_t)
        sidereal_rate == RDiv(RInt(24 * 60), RInt(360 * 3600))
        sidereal_scale == RDiv(RInt(1), RMul(sidereal_rate, pixel_scale))
        sidereal_factor == RDiv(ra_rate, sidereal_scale)
        ra_delta_as == RMul(pixel_scale, delta_ra)
        ra_ms_offset == RMul(RMul(ra_delta_as, sidereal_rate), RInt(60000))
        dec_delta_as == RMul(pixel_scale, delta_dec)
        dec_ms_offset == RMul(RMul(dec_delta_as, sidereal_rate), RInt(60000))
    IN  [pixel_scale |-> pixel_scale, rotation |-> rotation, delta_t |-> delta_t,
         delta_ra_deg |-> delta_ra_deg, delta_dec_deg |-> delta_dec_deg,
         delta_ra |-> delta_ra, delta_dec |-> delta_dec,
         ra_rate |-> ra_rate, dec_rate |-> dec_rate,
         sidereal_rate |-> sidereal_rate, sidereal_scale |-> sidereal_scale,
         sidereal_factor |-> sidereal_factor,
         ra_delta_as |-> ra_delta_as, ra_ms_offset |-> ra_ms_offset,
         dec_delta_as |-> dec_delta_as, dec_ms_offset |-> dec_ms_offset]

\* lines 173-245: a missing key raises KeyError, otherwise out is filled
SolveOffset_Compute ==
    /\ pc = "so_read"
    /\ IF \E i \in 1..Len(SubscriptedKeys) :
             SubscriptedKeys[i][2] \notin DOMAIN SubscriptedKeys[i][1]
       THEN /\ Raise("KeyError")
            /\ UNCHANGED out
       ELSE /\ out' = SolveOffsetOut(first_dict, second_dict)
            /\ Goto("so_return")
    /\ UNCHANGED <<first_dict, second_dict>>
    /\ UNCHANGED <<moVars, gpeVars, pecVars, envVars, sfVars, procVars, gsfVars>>

\* line 247
SolveOffset_Return ==
    /\ pc = "so_return"
    /\ Return(<<"dict", out>>)
    /\ UNCHANGED <<calcVars, envVars, sfVars, procVars, gsfVars>>

----------------------------------------------------------------------------
(* measure_offset *)

\* if crop and d0.shape[0] > 500
CropThreshold == 500
\* pixel_factor=100
PixelFactor == 100
\* sidereal = 15 arcsec / second
SiderealArcsecPerSecond == 15
\* info.get('delta_time', 125 * u.second)
DefaultDeltaTime == 125
\* crop_data(data, box_width=200) of .io
CropBoxWidth == 200

\* a top-level call measure_offset(d0, d1, info, crop, rate=rate)
CallMeasureOffset ==
    /\ pc = "idle"
    /\ \E a \in Arrays("d0"), b \in Arrays("d1"), i \in Infos, c \in BOOLEAN, r \in Rates :
        /\ d0' = a
        /\ d1' = b
        /\ moargs' = [d0 |-> a, d1 |-> b, info |-> i, crop |-> c, rate |-> r]
    /\ stack' = <<[fn |-> "measure_offset", ret |-> "done"]>>
    /\ topfn' = "measure_offset"
    /\ pc' = "mo_assert"
    /\ UNCHANGED <<exc, result, registered, offset_info>>
    /\ UNCHANGED <<soVars, gpeVars, pecVars, envVars, sfVars, procVars, gsfVars>>

\* faulty variant: only the number of rows is compared
SameRows(a, b) == a.shape[1] = b.shape[1]

\* line 284: d0.shape == d1.shape
SameShape(a, b) == a.shape = b.shape

\* line 284
MeasureOffset_Assert ==
    /\ pc = "mo_assert"
    /\ IF SameShape(d0, d1)
       THEN Goto("mo_crop")
       ELSE Raise("AssertionError: Data sets must be same size to measure offset")
    /\ UNCHANGED <<calcVars, envVars, sfVars, procVars, gsfVars>>

\* a[start:stop] on an axis of length n: the number of elements selected
SliceLen(start, stop, n) ==
    LET norm(i) == IF i < 0 THEN (IF i + n < 0 THEN 0 ELSE i + n)
                   ELSE (IF i > n THEN n ELSE i)
    IN  IF norm(stop) > norm(start) THEN norm(stop) - norm(start) ELSE 0

\* crop_data(data) of .io: the box of box_width around the centre
crop_data(a) ==
    LET x_center == a.shape[1] \div 2
        y_center == a.shape[2] \div 2
        half == CropBoxWidth \div 2
    IN  [a EXCEPT !.cropped = TRUE,
                  !.shape = <<SliceLen(x_center - half, x_center + half, a.shape[1]),
                              SliceLen(y_center - half, y_center + half, a.shape[2])>>]

\* faulty variant: large data are cropped whatever crop says
NeedsCropIgnoringFlag(crop, a) == a.shape[1] > CropThreshold

\* line 286: crop and d0.shape[0] > 500
NeedsCrop(crop, a) == crop /\ a.shape[1] > CropThreshold

\* lines 286-288
MeasureOffset_Crop ==
    /\ pc = "mo_crop"
    /\ IF NeedsCrop(moargs.crop, d0)
       THEN /\ d0' = crop_data(d0)
            /\ d1' = crop_data(d1)
       ELSE UNCHANGED <<d0, d1>>
    /\ Goto("mo_register")
    /\ UNCHANGED <<moargs, registered, offset_info>>
    /\ UNCHANGED <<soVars, gpeVars, pecVars, envVars, sfVars, procVars, gsfVars>>

Sidereal == RInt(SiderealArcsecPerSecond)

\* lines 324-326: the rate used when none is given
DefaultRate == RMul(<<9, 10>>, Sidereal)

\* lines 290-348: the offset dictionary for a measured shift
OffsetInfo(shift, info, rate) ==
    LET cd(k) == Get(info, k, 1)
        coords_delta ==
            <<Rat(shift[1] * cd("cd11") + shift[2] * cd("cd21"), PixelFactor),
              Rat(shift[1] * cd("cd12") + shift[2] * cd("cd22"), PixelFactor)>>
        used_rate == IF rate = None THEN DefaultRate ELSE rate
        ra_delta_as == RMul(coords_delta[1], RInt(3600))
        dec_delta_as == RMul(coords_delta[2], RInt(3600))
        ra_ms_offset == RMul(RDiv(ra_delta_as, used_rate), RInt(1000))
        dec_ms_offset == RMul(RDiv(dec_delta_as, used_rate), RInt(1000))
        delta_time == RInt(Get(info, "delta_time", DefaultDeltaTime))
        ra_rate_rate == RDiv(ra_delta_as, delta_time)
        dec_rate_rate == RDiv(dec_delta_as, delta_time)
        ra_delta_rate == RSub(RInt(1), RDiv(RAdd(Sidereal, ra_rate_rate), Sidereal))
        dec_delta_rate == RSub(RInt(1), RDiv(RAdd(Sidereal, dec_rate_rate), Sidereal))
    IN  [shift |-> <<Rat(shift[1], PixelFactor), Rat(shift[2], PixelFactor)>>,
         ra_delta_as |-> ra_delta_as,
         dec_delta_as |-> dec_delta_as,
         ra_ms_offset |-> RInt(RoundHalfEven(ra_ms_offset)),
         dec_ms_offset |-> RInt(RoundHalfEven(dec_ms_offset)),
         ra_delta_rate |-> Round4(ra_delta_rate),
         dec_delta_rate |-> Round4(dec_delta_rate)]

\* lines 290-348: register_translation(d0, d1, pixel_factor) and the conversions
MeasureOffset_Register ==
    /\ pc = "mo_register"
    /\ registered' = <<d0, d1>>
    /\ \E shift \in Shifts : offset_info' = OffsetInfo(shift, moargs.info, moargs.rate)
    /\ Goto("mo_return")
    /\ UNCHANGED <<d0, d1, moargs>>
    /\ UNCHANGED <<soVars, gpeVars, pecVars, envVars, sfVars, procVars, gsfVars>>

\* line 350
MeasureOffset_Return ==
    /\ pc = "mo_return"
    /\ Return(<<"dict", offset_info>>)
    /\ UNCHANGED <<calcVars, envVars, sfVars, procVars, gsfVars>>

----------------------------------------------------------------------------
(* get_pointing_error *)

\* the FITS files tried, and what the header of such a file may hold
PointingFiles == { <<"g", ".", "n", "e", "w">>, <<"g", ".", "f", "i", "t", "s">> }
PointingHeaders ==
    { [k \in ks |-> IF k = "RA" THEN ra ELSE 7] : ks \in SUBSET {"RA", "Dec"}, ra \in {3, 5} }

\* a top-level call get_pointing_error(fits_fname)
CallGetPointingError ==
    /\ pc = "idle"
    /\ \E f \in PointingFiles :
        pointing' = [fits_fname |-> f, wcs_info |-> EmptyDict, header |-> EmptyDict]
    /\ stack' = <<[fn |-> "get_pointing_error", ret |-> "done"]>>
    /\ topfn' = "get_pointing_error"
    /\ pc' = "gpe_assert"
    /\ UNCHANGED <<exc, result>>
    /\ UNCHANGED <<soVars, moVars, pecVars, envVars, sfVars, procVars, gsfVars>>

\* line 374: the file must exist; the message of the assert is warn(...)
GetPointingError_Assert ==
    /\ pc = "gpe_assert"
    /\ \E exists \in BOOLEAN :
        IF exists
        THEN /\ Goto("gpe_read")
             /\ UNCHANGED warnings
        ELSE /\ warnings' = Append(warnings, <<"No file exists at: ", pointing.fits_fname>>)
             /\ Raise("AssertionError")
    /\ UNCHANGED <<wait_timeout, clock, output, errs, out_dict, hdr_fname, reads>>
    /\ UNCHANGED <<calcVars, envVars, sfVars, procVars>>

\* lines 377-378: the WCS information and the primary header of the file
GetPointingError_Read ==
    /\ pc = "gpe_read"
    /\ \/ /\ \E w \in get_wcsinfo(pointing.fits_fname), h \in PointingHeaders :
                pointing' = [pointing EXCEPT !.wcs_info = w, !.header = h]
          /\ Goto("gpe_coords")
       \/ /\ Raise("OSError")
          /\ UNCHANGED pointing
    /\ UNCHANGED <<soVars, moVars, pecVars, envVars, sfVars, procVars, gsfVars>>

\* SkyCoord.separation of astropy: the angle between two directions, zero
\* for equal ones and otherwise left as the pair it is the angle of
separation(center, target) ==
    IF center = target THEN <<"deg", 0>> ELSE <<"deg", center, target>>

\* lines 381-388: the two coordinates and their separation
GetPointingError_Separation ==
    /\ pc = "gpe_coords"
    /\ IF {"RA", "Dec"} \subseteq DOMAIN pointing.header
       THEN Return(separation(
                <<pointing.wcs_info["ra_center"], pointing.wcs_info["dec_center"]>>,
                <<pointing.header["RA"], pointing.header["Dec"]>>))
       ELSE Raise("KeyError")
    /\ UNCHANGED <<calcVars, envVars, sfVars, procVars, gsfVars>>

----------------------------------------------------------------------------
(* get_pec_data *)

\* list.sort() on file names: ASCII order of the characters
Alphabet == <<".", "/", "2", "a", "b", "c", "d", "e", "f", "g", "i", "n", "r", "s", "t", "w">>
CharRank(c) == CHOOSE i \in 1..Len(Alphabet) : Alphabet[i] = c

RECURSIVE LexLess(_, _)
LexLess(a, b) ==
    IF Len(b) = 0 THEN FALSE
    ELSE IF Len(a) = 0 THEN TRUE
    ELSE IF Head(a) = Head(b) THEN LexLess(Tail(a), Tail(b))
    ELSE CharRank(Head(a)) < CharRank(Head(b))

RECURSIVE InsertSorted(_, _)
InsertSorted(x, l) ==
    IF Len(l) = 0 THEN <<x>>
    ELSE IF LexLess(Head(l), x) THEN <<Head(l)>> \o InsertSorted(x, Tail(l))
    ELSE <<x>> \o l

RECURSIVE Sort(_)
Sort(l) == IF Len(l) = 0 THEN <<>> ELSE InsertSorted(Head(l), Sort(Tail(l)))

\* the orders in which glob may list a set of files
GlobOrders(files) ==
    { l \in [1..Cardinality(files) -> files] : \A i, j \in DOMAIN l : i # j => l[i] # l[j] }

\* k.lower()
LowerKey(k) ==
    CASE k = "DATE-OBS" -> "date-obs" [] k = "ISO" -> "iso" [] k = "Camera" -> "camera"
      [] k = "HISTORY" -> "history" [] k = "COMMENT" -> "comment" [] OTHER -> k

\* line 477: dict((k.lower(), v) for k, v in header_info.items())
LowerKeys(d) ==
    [k \in { LowerKey(x) : x \in DOMAIN d } |->
        d[CHOOSE x \in DOMAIN d : LowerKey(x) = k]]

\* del d[k] for each k of ks
Del(d, ks) == [k \in (DOMAIN d) \ ks |-> d[k]]

\* np.diff, np.insert(a, 0, v), np.cumsum
Diff(a) == [i \in 1..(Len(a) - 1) |-> a[i + 1] - a[i]]
Insert0(a, v) == <<v>> \o a
RECURSIVE SumTo(_, _)
SumTo(a, i) == IF i = 0 THEN 0 ELSE SumTo(a, i - 1) + a[i]
CumSum(a) == [i \in 1..Len(a) |-> SumTo(a, i)]

\* float division: x/0 is +-inf, kept as <<+-1, 0>>, and 0/0 is NaN, <<0, 0>>
FloatDiv(a, b) ==
    IF b = 0 THEN <<(IF a > 0 THEN 1 ELSE IF a < 0 THEN -1 ELSE 0), 0>> ELSE Rat(a, b)
\* Series.fillna(value=0)
FillNa(x) == IF x = <<0, 0>> THEN <<0, 1>> ELSE x

\* the zones the host may be in: with or without summer time
Zones == [dst : BOOLEAN]

\* how far the local time t of the zone is ahead of UTC
utcoffset(zone, t) ==
    IF zone.dst /\ t >= DstStart THEN 2 * LocalUtcOffset ELSE LocalUtcOffset

\* datetime.timestamp() of a naive datetime: it is read as local time of the
\* host
Timestamp(zone, t) == t - utcoffset(zone, t)

\* Time.mjd of a time in seconds since 1970: whole days and fraction of a day
Mjd(t) == <<40587 + (t \div 86400), Rat(t % 86400, 86400)>>

\* observer.target_hour_angle(t, coord), in whole degrees in 0..359
target_hour_angle(t, ra) == (t - ra) % 360

\* the dictionary a finished get_solve_field call returned is used up
ResetLocals ==
    /\ DropFrame
    /\ out_dict' = EmptyDict

\* get_solve_field(f, **kw) called from get_pec_data, continuing at ret
CallNested(f, kw, ret) ==
    /\ fname' = f
    /\ callkw' = kw
    /\ stack' = <<[fn |-> "get_solve_field", ret |-> ret]>> \o stack
    /\ pc' = "gsf_enter"
    /\ UNCHANGED <<exc, result, topfn, exists_result, options, cmd>>
    /\ UNCHANGED <<envVars, procVars, gsfVars>>

\* a top-level call get_pec_data(image_dir, ref_image, observer=..., **kwargs)
CallGetPecData ==
    /\ pc = "idle"
    /\ pecargs' \in [observer : BOOLEAN, image_dir : ImageDirs,
                      img_prefix : ImgPrefixes, kwargs : PecKwargs]
    /\ ref_image' \in {None, GuideNew}
    /\ env' \in Environments
    /\ stack' = <<[fn |-> "get_pec_data", ret |-> "done"]>>
    /\ topfn' = "get_pec_data"
    /\ pc' = "pec_enter"
    /\ UNCHANGED <<exc, result>>
    /\ UNCHANGED <<t0, ref_wcs, image_files, idx, img_info, img_log, table>>
    /\ UNCHANGED <<soVars, moVars, gpeVars, fs, sfVars, procVars, gsfVars>>

\* line 395
GetPecData_Enter ==
    /\ pc = "pec_enter"
    /\ IF pecargs.observer
       THEN Goto("pec_guide")
       ELSE Raise("AssertionError: Observer required")
    /\ UNCHANGED <<calcVars, envVars, sfVars, procVars, gsfVars>>

\* glob.glob(dir/prefix*): the files of the set whose name starts with prefix
Glob(files, prefix) ==
    { f \in files : Len(f) >= Len(prefix) /\ SubSeq(f, 1, Len(prefix)) = prefix }

\* lines 402-406: guide_*.new, or guide_*.cr2 when there is none, sorted
GuideImages(dir) ==
    LET solved == Glob(dir.new, <<"g">>)
        found == IF solved = {} THEN Glob(dir.cr2, <<"g">>) ELSE solved
    IN  { Sort(listed) : listed \in GlobOrders(found) }

\* lines 402-413: the guide images and the choice of the reference image;
\* ref_image is the parameter, assigned where it was not given
GetPecData_Guide ==
    /\ pc = "pec_guide"
    /\ \E guide_images \in GuideImages(pecargs.image_dir) :
        IF ref_image # None
        THEN /\ ref_image' = ref_image
             /\ Goto("pec_ref")
        ELSE IF guide_images = <<>>
        THEN /\ Raise("IndexError")
             /\ UNCHANGED ref_image
        ELSE /\ ref_image' = Sort(guide_images)[Len(guide_images)]
             /\ Goto("pec_ref")
    /\ UNCHANGED <<pecargs, t0, ref_wcs, image_files, idx, img_info, img_log, table>>
    /\ UNCHANGED <<soVars, moVars, gpeVars, envVars, sfVars, procVars, gsfVars>>

\* lines 415-418: a CR2 reference image is solved first
GetPecData_Ref ==
    /\ pc = "pec_ref"
    /\ IF EndsWith(ref_image, Cr2Ext)
       THEN CallNested(ref_image, EmptyDict, "pec_ref_solved")
       ELSE /\ Goto("pec_ref_exists")
            /\ UNCHANGED <<envVars, sfVars, procVars, gsfVars>>
    /\ UNCHANGED calcVars

\* line 421
GetPecData_RefSolved ==
    /\ pc = "pec_ref_solved"
    /\ ref_image' = Replace(ref_image, Cr2Ext, NewExt)
    /\ ResetLocals
    /\ Goto("pec_ref_exists")
    /\ UNCHANGED <<pecargs, t0, ref_wcs, image_files, idx, img_info, img_log, table>>
    /\ UNCHANGED <<soVars, moVars, gpeVars, envVars>>

\* the assert of line 432 fails: its message, warn(...), is evaluated first
RefImageMissing ==
    /\ warnings' = Append(warnings, <<"Ref image does not exist: ", ref_image>>)
    /\ Raise("AssertionError")
    /\ UNCHANGED <<wait_timeout, clock, output, errs, out_dict, hdr_fname, reads>>
    /\ UNCHANGED <<envVars, sfVars, procVars>>

\* lines 425-432: a missing reference image is solved from its .fits, if any
GetPecData_RefExists ==
    /\ pc = "pec_ref_exists"
    /\ \E exists \in BOOLEAN, fits_exists \in BOOLEAN :
        IF exists
        THEN /\ Goto("pec_ref_header")
             /\ UNCHANGED <<envVars, sfVars, procVars, gsfVars>>
        ELSE IF fits_exists
        THEN CallNested(Replace(ref_image, NewExt, <<"f", "i", "t", "s">>), EmptyDict,
                        "pec_ref_assert")
        ELSE RefImageMissing
    /\ UNCHANGED calcVars

\* line 432, after the .fits file was solved
GetPecData_RefAssert ==
    /\ pc = "pec_ref_assert"
    /\ \E exists \in BOOLEAN :
        IF exists
        THEN /\ Goto("pec_ref_header")
             /\ UNCHANGED <<envVars, sfVars, procVars, gsfVars>>
        ELSE RefImageMissing
    /\ UNCHANGED calcVars

\* lines 433-436: the header and WCS of the reference image, and t0
GetPecData_RefHeader ==
    /\ pc = "pec_ref_header"
    /\ \/ /\ \E ref_header \in Contents("header", ref_image, getheader(ref_image)) :
                /\ fs' = Remember("header", ref_image, ref_header)
                /\ t0' = Get(ref_header, "DATE-OBS", ObsDateStart)
          /\ ref_wcs' \in get_wcsinfo(ref_image)
          /\ Goto("pec_glob")
       \/ /\ Raise("OSError")
          /\ UNCHANGED <<t0, ref_wcs, fs>>
    /\ ResetLocals
    /\ UNCHANGED <<pecargs, ref_image, image_files, idx, img_info, img_log, table>>
    /\ UNCHANGED <<soVars, moVars, gpeVars, env>>

\* lines 442-448: the image sequence, sorted
GetPecData_Glob ==
    /\ pc = "pec_glob"
    /\ \E listed \in GlobOrders(Glob(pecargs.image_dir.cr2, pecargs.img_prefix)) :
        image_files' = Sort(listed)
    /\ img_info' = <<>>
    /\ img_log' = <<>>
    /\ idx' = 1
    /\ Goto("pec_loop")
    /\ UNCHANGED <<pecargs, ref_image, t0, ref_wcs, table>>
    /\ UNCHANGED <<soVars, moVars, gpeVars, envVars, sfVars, procVars, gsfVars>>

\* line 455: if not os.path.exists(img_wcs_path)
NeedsSolving(wcs_exists) == ~wcs_exists

\* lines 461-467: the guess passed to get_solve_field, before **kwargs
SolverGuess(w) ==
    ("ra" :> w.ra_center) @@ ("dec" :> w.dec_center) @@ ("radius" :> 10)

\* lines 488-491 and 451-468: the next image; it is solved when it has no .wcs
GetPecData_Loop ==
    /\ pc = "pec_loop"
    /\ IF idx > Len(image_files)
       THEN /\ Goto("pec_table")
            /\ UNCHANGED img_log
            /\ UNCHANGED <<envVars, sfVars, procVars, gsfVars>>
       ELSE \E wcs_exists \in BOOLEAN :
            /\ img_log' = Append(img_log, [file |-> image_files[idx], wcs |-> wcs_exists,
                                            solved |-> NeedsSolving(wcs_exists),
                                            sources |-> <<>>])
            /\ IF ~NeedsSolving(wcs_exists)
               THEN /\ Goto("pec_gather")
                    /\ UNCHANGED <<envVars, sfVars, procVars, gsfVars>>
               ELSE CallNested(image_files[idx], SolverGuess(ref_wcs) @@ pecargs.kwargs,
                               "pec_gather")
    /\ UNCHANGED <<pecargs, ref_image, t0, ref_wcs, image_files, idx, img_info, table>>
    /\ UNCHANGED <<soVars, moVars, gpeVars>>

\* lines 477-484: lower-case the keys, drop history and comment, append
Finish(header_info, sources) ==
    LET hi == LowerKeys(header_info) IN
    IF {"history", "comment"} \subseteq DOMAIN hi
    THEN /\ img_info' = Append(img_info, Del(hi, {"history", "comment"}))
         /\ img_log' = [img_log EXCEPT ![idx].sources = sources]
         /\ idx' = idx + 1
         /\ Goto("pec_loop")
    ELSE /\ Raise("KeyError")
         /\ UNCHANGED <<img_info, img_log, idx>>

\* lines 470-484: gather the header information of the image and append it
GetPecData_Gather ==
    /\ pc = "pec_gather"
    /\ LET img == image_files[idx]
           img_wcs_path == Replace(img, Cr2Ext, <<"w", "c", "s">>)
           img_new == Replace(img, Cr2Ext, NewExt)
           header_info == IF img_log[idx].solved THEN out_dict ELSE EmptyDict
       IN  IF header_info = EmptyDict
           THEN \/ \E w \in get_wcsinfo(img_wcs_path),
                       h \in Contents("header", img_new, getheader(img_new)),
                       e \in Contents("exif", img, read_exif(img)) :
                        /\ fs' = RememberIn(Remember("exif", img, e), "header", img_new, h)
                        /\ Finish(Update(Update(w, h), e), <<img_wcs_path, img_new, img>>)
                \/ /\ Raise("OSError")
                   /\ UNCHANGED <<img_info, img_log, idx, fs>>
           ELSE /\ Finish(header_info, <<>>)
                /\ UNCHANGED fs
    /\ ResetLocals
    /\ UNCHANGED <<pecargs, ref_image, t0, ref_wcs, image_files, table>>
    /\ UNCHANGED <<soVars, moVars, gpeVars, env>>

\* line 514: the offset of the first image from the reference time
InitialOffset(zone, times) == Timestamp(zone, times[1]) - Timestamp(zone, t0)

\* lines 494-560: the columns of the table
PecTable(info, zone) ==
    LET n == Len(info)
        ras == [i \in 1..n |-> info[i]["ra_center"]]
        decs == [i \in 1..n |-> info[i]["dec_center"]]
        ras_as == [i \in 1..n |-> 3600 * ras[i]]
        decs_as == [i \in 1..n |-> 3600 * decs[i]]
        time_range == [i \in 1..n |-> Get(info[i], "date-obs", t0)]
        raw_ha == [i \in 1..n |-> target_hour_angle(time_range[i], ras[i])]
        ha == [i \in 1..n |-> IF raw_ha[i] > 270 THEN raw_ha[i] - 360 ELSE raw_ha[i]]
        dt == Insert0(Diff([i \in 1..n |-> Timestamp(zone, time_range[i])]),
                      InitialOffset(zone, time_range))
        t_offset == CumSum(dt)
        ra_diff == Insert0(Diff(ras_as), 0)
        dec_diff == Insert0(Diff(decs_as), 0)
    IN  [dec |-> decs,
         dec_as |-> dec_diff,
         dec_as_rate |-> [i \in 1..n |-> FillNa(FloatDiv(dec_diff[i], dt[i]))],
         dt |-> dt,
         ha |-> ha,
         ra |-> ras,
         ra_as |-> ra_diff,
         ra_as_rate |-> [i \in 1..n |-> FillNa(FloatDiv(ra_diff[i], dt[i]))],
         offset |-> t_offset,
         time_range |-> [i \in 1..n |-> Mjd(time_range[i])]]

\* lines 494-573: build the table; an entry without centre, or no entry at
\* all, ends the call with an exception
GetPecData_Table ==
    /\ pc = "pec_table"
    /\ IF \E i \in 1..Len(img_info) :
             ~({"ra_center", "dec_center"} \subseteq DOMAIN img_info[i])
       THEN /\ Raise("KeyError")
            /\ UNCHANGED table
       ELSE IF Len(img_info) = 0
       THEN /\ Raise("IndexError")
            /\ UNCHANGED table
       ELSE /\ \E zone \in Zones : table' = PecTable(img_info, zone)
            /\ Goto("pec_return")
    /\ UNCHANGED <<pecargs, ref_image, t0, ref_wcs, image_files, idx, img_info, img_log>>
    /\ UNCHANGED <<soVars, moVars, gpeVars, envVars, sfVars, procVars, gsfVars>>

\* line 573
GetPecData_Return ==
    /\ pc = "pec_return"
    /\ Return(<<"table", table>>)
    /\ UNCHANGED <<calcVars, envVars, sfVars, procVars, gsfVars>>

----------------------------------------------------------------------------

Next ==
    \/ CallSolveField
    \/ SolveField_CheckScript
    \/ SolveField_Options
    \/ SolveField_Popen
    \/ SolveField_Return
    \/ ProcExit
    \/ ProcDie
    \/ PipeClosed
    \/ CallGetSolveField
    \/ GetSolveField_CallSolveField
    \/ GetSolveField_Wait
    \/ Tick
    \/ GetSolveField_Communicate
    \/ GetSolveField_Timeout
    \/ GetSolveField_Kill
    \/ GetSolveField_Communicate2
    \/ GetSolveField_Dict
    \/ GetSolveField_Header
    \/ GetSolveField_Return
    \/ CallSolveOffset
    \/ SolveOffset_Assert
    \/ SolveOffset_Compute
    \/ SolveOffset_Return
    \/ CallMeasureOffset
    \/ MeasureOffset_Assert
    \/ MeasureOffset_Crop
    \/ MeasureOffset_Register
    \/ MeasureOffset_Return
    \/ CallGetPointingError
    \/ GetPointingError_Assert
    \/ GetPointingError_Read
    \/ GetPointingError_Separation
    \/ CallGetPecData
    \/ GetPecData_Enter
    \/ GetPecData_Guide
    \/ GetPecData_Ref
    \/ GetPecData_RefSolved
    \/ GetPecData_RefExists
    \/ GetPecData_RefAssert
    \/ GetPecData_RefHeader
    \/ GetPecData_Glob
    \/ GetPecData_Loop
    \/ GetPecData_Gather
    \/ GetPecData_Table
    \/ GetPecData_Return

Spec == Init /\ [][Next]_vars

\* The interpreter keeps executing a running solve_field / get_solve_field
\* call, time passes while communicate() waits, and a SIGKILL sent is
\* delivered.  Nothing obliges a caller to call, the script to finish on its
\* own, nor the processes it started to let go of the pipe.
Progress ==
    \/ SolveField_CheckScript
    \/ SolveField_Options
    \/ SolveField_Popen
    \/ SolveField_Return
    \/ ProcDie
    \/ GetSolveField_CallSolveField
    \/ GetSolveField_Wait
    \/ Tick
    \/ GetSolveField_Communicate
    \/ GetSolveField_Timeout
    \/ GetSolveField_Kill
    \/ GetSolveField_Communicate2
    \/ GetSolveField_Dict
    \/ GetSolveField_Header
    \/ GetSolveField_Return

FairSpec == Spec /\ WF_vars(Progress)

----------------------------------------------------------------------------
(* Claims *)

\* get_solve_field is about to return, or has returned, its dictionary
GetSolveFieldReturning == pc = "gsf_return"

\* C1: when the solve_field script does not exist the call fails with
\* InvalidSystemCommand and no process is spawned; a process is spawned only
\* in a call whose existence check passed.
C1_MissingScriptNeverSpawns ==
    /\ [](exists_result = "no" =>
            pc = "raised" /\ exc = "InvalidSystemCommand" /\ proc.state = "none")
    /\ [](proc.state # "none" => exists_result = "yes")
    /\ [][spawned' # spawned => exists_result = "yes" /\ pc = "sf_popen"]_vars

C1_Witness ==
    /\ exists_result = "no"
    /\ exc = "InvalidSystemCommand"
    /\ spawned = 0

\* What get_solve_field never does: it returns only after the spawned process
\* has terminated and been collected, the kill being sent only after the wait
\* ran to its timeout (kwargs 'timeout', default 30), and the wait's timeout
\* is never raised to the caller.
C2_WaitsForProcess ==
    /\ [](GetSolveFieldReturning =>
            /\ proc.state \in {"exited", "killed"}
            /\ proc.collected
            /\ wait_timeout = Get(callkw, "timeout", DefaultWait)
            /\ (proc.state = "killed" => proc.kill_sent))
    /\ [](clock <= wait_timeout)
    /\ [][proc'.kill_sent /\ ~proc.kill_sent => pc = "gsf_kill"]_vars
    /\ [][pc' = "gsf_kill" /\ pc # "gsf_kill" =>
            pc = "gsf_communicate" /\ Waiting(proc) /\ clock = wait_timeout]_vars
    /\ [](exc # "TimeoutExpired")

\* C2: get_solve_field returns only after the spawned process has terminated
\* and been collected, killed when the wait timed out; the wait's timeout is
\* never raised to the caller; and, the steps of the call, the clock and the
\* delivery of the kill being fair, once the process is spawned the call
\* eventually returns.
C2_ReturnsAfterProcessEnds ==
    /\ C2_WaitsForProcess
    /\ ((pc = "gsf_wait") ~> GetSolveFieldReturning)

\* C3: without solver error output, for a file name ending in 'cr2' the
\* returned dict holds the EXIF entries of the file, 'solved_fits_file' = the
\* name with 'cr2' replaced by 'new', and the header entries of that file, the
\* header winning on shared keys; for any other name no EXIF is read,
\* 'solved_fits_file' is absent and the header is that of the given file; a
\* header that cannot be read leaves the dict gathered so far.
C3_ResultContents ==
    (GetSolveFieldReturning /\ errs = None) =>
        IF EndsWith(fname, Cr2Ext)
        THEN /\ Len(reads) = 2
             /\ reads[1].op = "read_exif" /\ reads[1].file = fname
             /\ reads[2].op = "getheader"
             /\ reads[2].file = Replace(fname, Cr2Ext, NewExt)
             /\ EndsWith(reads[2].file, NewExt)
             /\ Len(reads[2].file) = Len(fname)
             /\ DOMAIN out_dict = (DOMAIN reads[1].data) \cup (DOMAIN reads[2].data)
                                    \cup {"solved_fits_file"}
             /\ out_dict["solved_fits_file"] = reads[2].file
             /\ \A k \in DOMAIN reads[2].data : out_dict[k] = reads[2].data[k]
             /\ \A k \in (DOMAIN reads[1].data) \ (DOMAIN reads[2].data) :
                    out_dict[k] = reads[1].data[k]
             /\ (~reads[2].ok => reads[2].data = EmptyDict)
        ELSE /\ Len(reads) = 1
             /\ reads[1].op = "getheader" /\ reads[1].file = fname
             /\ out_dict = reads[1].data
             /\ "solved_fits_file" \notin DOMAIN out_dict
             /\ (~reads[1].ok => out_dict = EmptyDict)

C3_Witness ==
    /\ pc = "done"
    /\ result[1] = "dict"
    /\ fname = <<"c", "r", "2", "/", "g", ".", "c", "r", "2">>
    /\ Len(reads) = 2
    /\ {"Camera", "ISO"} \subseteq DOMAIN reads[1].data
    /\ "ISO" \in DOMAIN reads[2].data
    /\ result[2]["solved_fits_file"] = <<"n", "e", "w", "/", "g", ".", "n", "e", "w">>
    /\ result[2]["ISO"] = <<"fits", <<"n", "e", "w", "/", "g", ".", "n", "e", "w">>>>
    /\ result[2]["Camera"] = <<"exif", fname>>

\* C4 (as claimed): when the solver produced error output, get_solve_field
\* warns 'Error in solving' and returns an empty dict without reading EXIF
\* data or a header.
C4_ErrorOutputWarnsAndReturnsEmpty ==
    (GetSolveFieldReturning /\ proc.wrote_err) =>
        /\ out_dict = EmptyDict
        /\ reads = <<>>
        /\ warnings # <<>>

\* C7 (as claimed): with no timeout and no solve_opts given, the value that
\* follows '--cpulimit' in the options is 60.
C7_DefaultCpuLimitIs60 ==
    (pc = "sf_popen" /\ "timeout" \notin DOMAIN callkw /\ SolveOpts(callkw) = <<>>) =>
        \E i \in 1..(Len(options) - 1) :
            /\ options[i] = "--cpulimit"
            /\ options[i + 1] = Str(DocumentedCpuLimit)

\* C5: when d0 and d1 differ in shape, measure_offset fails with the assertion
\* 'Data sets must be same size to measure offset' before anything is cropped
\* or registered and no dictionary is returned; the two arrays handed to
\* register_translation always have the same shape.
C5_ShapesMustMatch ==
    topfn = "measure_offset" =>
        /\ (moargs.d0.shape # moargs.d1.shape /\ pc # "mo_assert") =>
                /\ pc = "raised"
                /\ exc = "AssertionError: Data sets must be same size to measure offset"
                /\ d0 = moargs.d0 /\ d1 = moargs.d1
                /\ registered = <<>>
                /\ offset_info = EmptyDict
                /\ result = None
        /\ registered # <<>> => registered[1].shape = registered[2].shape

C5_Witness ==
    /\ topfn = "measure_offset"
    /\ pc = "raised"
    /\ moargs.crop
    /\ moargs.d0.shape = <<501, 100>>
    /\ moargs.d1.shape = <<501, 640>>

\* the keys solve_offset puts in its output
SolveOffsetKeys ==
    {"pixel_scale", "rotation", "delta_t", "delta_ra_deg", "delta_dec_deg",
     "delta_ra", "delta_dec", "ra_rate", "dec_rate", "sidereal_rate",
     "sidereal_scale", "sidereal_factor", "ra_delta_as", "ra_ms_offset",
     "dec_delta_as", "dec_ms_offset"}

\* C6: solve_offset fails with an assertion error and no output whenever
\* 'center_ra' is missing from either dict or 'pixel_scale' from the first;
\* with every required key present it does not fail and returns a dict with
\* exactly the sixteen keys of SolveOffsetKeys.
C6_RequiredKeys ==
    topfn = "solve_offset" =>
        LET asserted == /\ "center_ra" \in DOMAIN first_dict
                        /\ "center_ra" \in DOMAIN second_dict
                        /\ "pixel_scale" \in DOMAIN first_dict
            complete == /\ {"center_ra", "center_dec", "DATE-OBS", "rotation",
                             "pixel_scale"} \subseteq DOMAIN first_dict
                        /\ {"center_ra", "center_dec", "DATE-OBS"} \subseteq DOMAIN second_dict
        IN  /\ (~asserted /\ pc # "so_assert") =>
                    /\ pc = "raised"
                    /\ exc = "AssertionError"
                    /\ out = EmptyDict
                    /\ result = None
            /\ complete => pc # "raised"
            /\ (complete /\ pc = "done") =>
                    /\ result[1] = "dict"
                    /\ DOMAIN result[2] = SolveOffsetKeys
                    /\ Cardinality(DOMAIN result[2]) = 16

C6_Witness ==
    /\ topfn = "solve_offset"
    /\ pc = "done"
    /\ second_dict["center_ra"] = 12
    /\ second_dict["DATE-OBS"] = 90
    /\ result[2]["delta_t"] = <<3, 2>>
    /\ result[2]["ra_ms_offset"] = <<480000, 1>>

\* C8 (as claimed): with rate=None the millisecond offsets are the arcsecond
\* offsets divided by the sidereal rate, round(delta_arcsec / 15 * 1000).
C8_DefaultRateIsSidereal ==
    (topfn = "measure_offset" /\ pc = "mo_return" /\ moargs.rate = None) =>
        /\ offset_info.ra_ms_offset =
             RInt(RoundHalfEven(RMul(RDiv(offset_info.ra_delta_as, RInt(15)), RInt(1000))))
        /\ offset_info.dec_ms_offset =
             RInt(RoundHalfEven(RMul(RDiv(offset_info.dec_delta_as, RInt(15)), RInt(1000))))

\* C9: both arrays are cropped, by crop_data, exactly when crop is true and
\* the data are longer than 500 pixels along their first axis (d0.shape[0]);
\* with crop false the arrays are registered as passed, whatever their size.
C9_CropWhenLarge ==
    (topfn = "measure_offset" /\ registered # <<>>) =>
        LET large == moargs.d0.shape[1] > 500 IN
        /\ (moargs.crop /\ large) =>
                /\ registered = <<crop_data(moargs.d0), crop_data(moargs.d1)>>
                /\ registered[1].cropped /\ registered[2].cropped
        /\ ~(moargs.crop /\ large) => registered = <<moargs.d0, moargs.d1>>
        /\ ~moargs.crop => ~registered[1].cropped /\ ~registered[2].cropped

C9_Witness ==
    /\ topfn = "measure_offset"
    /\ pc = "done"
    /\ moargs.crop
    /\ moargs.d0.shape = <<501, 640>>
    /\ registered[1].cropped /\ registered[2].cropped
    /\ registered[1].shape = <<200, 200>>

\* C10: the table get_pec_data returns has one row per image of the sorted
\* sequence, in that order; 'offset' of row i is the observation time of image
\* i (its date-obs, the reference time when it has none) minus the reference
\* time t0; dt of the first row is the time of the first image minus t0 and dt
\* of a later row the time since the previous image; 'ra_as' and 'dec_as' are
\* 0 in the first row and the arcsecond difference to the previous image after.
\* The code takes the times through datetime.timestamp() of naive datetimes
\* (lines 512-514), which reads them in the zone of the host: where summer time
\* begins between two of the times, dt and offset are off by the shift.
C10_TimeSeries ==
    (topfn = "get_pec_data" /\ pc = "pec_return") =>
        LET n == Len(image_files)
            obs(i) == Get(img_info[i], "date-obs", t0)
        IN  /\ n >= 1
            /\ Len(img_info) = n /\ Len(img_log) = n
            /\ \A col \in DOMAIN table : Len(table[col]) = n
            /\ \A i \in 1..(n - 1) : LexLess(image_files[i], image_files[i + 1])
            /\ \A i \in 1..n :
                    /\ img_log[i].file = image_files[i]
                    /\ ~img_log[i].solved
                    /\ img_log[i].sources[3] = image_files[i]
                    /\ table.ra[i] = img_info[i]["ra_center"]
                    /\ table.dec[i] = img_info[i]["dec_center"]
                    /\ table.time_range[i] = Mjd(obs(i))
                    /\ table.offset[i] = obs(i) - t0
            /\ table.dt[1] = obs(1) - t0
            /\ table.ra_as[1] = 0
            /\ table.dec_as[1] = 0
            /\ \A i \in 2..n :
                    /\ table.dt[i] = obs(i) - obs(i - 1)
                    /\ table.ra_as[i] =
                         3600 * (img_info[i]["ra_center"] - img_info[i - 1]["ra_center"])
                    /\ table.dec_as[i] =
                         3600 * (img_info[i]["dec_center"] - img_info[i - 1]["dec_center"])

\* C11: when solve_field has built its command, the command is the list
\* [script, options joined by single spaces, fname]; with a non-empty solve_opts
\* the options are exactly that list, whatever timeout, kwargs and PANTEMP are;
\* with an empty solve_opts they are the eight default entries (with
\* '--cpulimit <timeout>'), then '--overwrite' iff clobber (default true),
\* '--skip-solved' iff skip_solved (default true), '--ra', '--dec', '--radius'
\* with their value iff the key is among the kwargs, '--temp-dir <PANTEMP>' iff
\* PANTEMP is set, and nothing else; the caller's solve_opts list is unchanged.
Elements(l) == { l[i] : i \in DOMAIN l }

FlagWithValue(l, flag, value) ==
    \E i \in 1..(Len(l) - 1) : l[i] = flag /\ l[i + 1] = value

C11_DefaultsMarshalled ==
    /\ Len(options) >= 8
    /\ SubSeq(options, 1, 8) =
          <<"--guess-scale", "--cpulimit", Str(Get(callkw, "timeout", 15)),
            "--no-verify", "--no-plots", "--crpix-center", "--downsample", "4">>
    /\ ("--overwrite" \in Elements(options)) <=> Get(callkw, "clobber", TRUE)
    /\ ("--skip-solved" \in Elements(options)) <=> Get(callkw, "skip_solved", TRUE)
    /\ \A k \in {"ra", "dec", "radius"} :
          IF k \in DOMAIN callkw
          THEN FlagWithValue(options, "--" \o k, Str(callkw[k]))
          ELSE ("--" \o k) \notin Elements(options)
    /\ IF env.PANTEMP # ""
       THEN FlagWithValue(options, "--temp-dir", env.PANTEMP)
       ELSE "--temp-dir" \notin Elements(options)
    /\ Len(options) =
          8 + (IF Get(callkw, "clobber", TRUE) THEN 1 ELSE 0)
            + (IF Get(callkw, "skip_solved", TRUE) THEN 1 ELSE 0)
            + 2 * Cardinality({"ra", "dec", "radius"} \cap DOMAIN callkw)
            + (IF env.PANTEMP # "" THEN 2 ELSE 0)
    /\ (Len(options) = 8 /\ "timeout" \notin DOMAIN callkw) =>
          cmd[2] = "--guess-scale --cpulimit 15 --no-verify --no-plots --crpix-center --downsample 4"

C11_OptionMarshalling ==
    /\ [](pc = "sf_popen" =>
            /\ Len(cmd) = 3
            /\ cmd[1] = solve_field_script
            /\ cmd[2] = Join(options)
            /\ cmd[3] = fname
            /\ IF Get(callkw, "solve_opts", <<>>) # <<>>
               THEN /\ options = callkw["solve_opts"]
                    /\ options = <<"--no-plots", "--cpulimit", "5">> =>
                          cmd[2] = "--no-plots --cpulimit 5"
               ELSE C11_DefaultsMarshalled)
    /\ [][pc = "sf_options" => callkw' = callkw]_vars

C11_Witness ==
    /\ topfn = "solve_field"
    /\ pc = "sf_popen"
    /\ env.PANTEMP # ""
    /\ {"timeout", "solve_opts", "clobber", "ra", "dec", "radius"} \subseteq DOMAIN callkw
    /\ callkw["solve_opts"] = <<"--no-plots", "--cpulimit", "5">>
    /\ ~callkw["clobber"]
    /\ options = <<"--no-plots", "--cpulimit", "5">>
    /\ cmd = <<solve_field_script, "--no-plots --cpulimit 5", <<"g", ".", "c", "r", "2">> >>

\* The parts of C12, on the calls of get_pec_data that have globbed the
\* sequence.
InSequence == topfn = "get_pec_data" /\ idx >= 1

SourceFiles(img) ==
    <<Replace(img, <<"c", "r", "2">>, <<"w", "c", "s">>),
      Replace(img, <<"c", "r", "2">>, <<"n", "e", "w">>), img>>

C12_Entries ==
    /\ Len(img_log) \in {Len(img_info), Len(img_info) + 1}
    /\ Len(img_log) <= Len(image_files)
    /\ idx = Len(img_info) + 1
    /\ \A i \in 1..Len(img_log) :
          /\ img_log[i].file = image_files[i]
          /\ img_log[i].solved <=> ~img_log[i].wcs
    /\ \A i \in 1..Len(img_info) :
          /\ {"history", "comment"} \cap DOMAIN img_info[i] = {}
          /\ img_log[i].wcs =>
                /\ img_log[i].sources = SourceFiles(image_files[i])
                /\ {"ra_center", "dec_center"} \subseteq DOMAIN img_info[i]
                /\ "camera" \in DOMAIN img_info[i] =>
                      img_info[i]["camera"] = <<"exif", image_files[i]>>
    /\ pc \in {"pec_table", "pec_return", "done"} => Len(img_info) = Len(image_files)

C12_NextImage ==
    (InSequence /\ pc = "pec_loop" /\ idx <= Len(image_files)) =>
        /\ Len(img_log) = idx - 1
        /\ Len(img_log') = idx
        /\ img_log'[idx].file = image_files[idx]
        /\ IF img_log'[idx].wcs
           THEN pc' = "pec_gather" /\ spawned' = spawned /\ Len(stack') = Len(stack)
           ELSE /\ pc' = "gsf_enter"
                /\ Head(stack') = [fn |-> "get_solve_field", ret |-> "pec_gather"]
                /\ fname' = image_files[idx]
                /\ {"ra", "dec", "radius"} \subseteq DOMAIN callkw'
                /\ callkw'["ra"] = ref_wcs.ra_center
                /\ callkw'["dec"] = ref_wcs.dec_center
                /\ callkw'["radius"] = 10

C12_Spawn ==
    (InSequence /\ spawned' # spawned) =>
        /\ pc = "sf_popen"
        /\ Len(img_log) = idx
        /\ ~img_log[idx].wcs
        /\ fname = image_files[idx]

C12_Append ==
    (InSequence /\ img_info' # img_info) =>
        /\ pc = "pec_gather"
        /\ Len(img_info) = idx - 1
        /\ Len(img_info') = idx
        /\ SubSeq(img_info', 1, idx - 1) = img_info
        /\ idx' = idx + 1
        /\ (img_log'[idx].sources = SourceFiles(image_files[idx]))
              <=> (img_log[idx].wcs \/ out_dict = EmptyDict)
        /\ (img_log'[idx].sources = <<>>)
              <=> (~img_log[idx].wcs /\ out_dict # EmptyDict)

\* the images are taken in sorted file-name order
C12_Sorted ==
    \A i \in 1..(Len(image_files) - 1) : LexLess(image_files[i], image_files[i + 1])

\* each image of the sequence appends exactly one entry: the step that gathers
\* the information of an image ends with one more entry in the list
C12_OneEntryEach ==
    (InSequence /\ pc = "pec_gather" /\ pc' # pc) =>
        /\ Len(img_info') = Len(img_info) + 1
        /\ pc' = "pec_loop"

\* C12: get_pec_data takes the images one at a time in sorted file-name order;
\* the solver is invoked for an image (through get_solve_field, with the centre
\* of the reference image and radius 10 as the guess) exactly when the image
\* has no .wcs file; an image with a .wcs file is never solved again and its
\* entry is read from the .wcs, the .new and the EXIF data; so is the entry of
\* an image whose solve returned an empty dictionary; and each image appends
\* exactly one entry.
\* The code does not keep the last part: a solve never returns an empty
\* dictionary for a .cr2 image (line 140 always adds 'solved_fits_file'), so
\* lines 470-473 never read the .wcs and .new of an image that was solved, and
\* where the solver left no readable .new file the entry has no 'history' and
\* line 478 raises KeyError before anything is appended.
C12_PerImageSolving ==
    /\ [](InSequence => (C12_Entries /\ C12_Sorted))
    /\ [][C12_NextImage]_vars
    /\ [][C12_Spawn]_vars
    /\ [][C12_Append]_vars
    /\ [][C12_OneEntryEach]_vars

====
